---- MODULE Spec2Model ----
(***************************************************************************)
(* Approval workflow engine of the expense manager                         *)
(* (expense-backend/expenses/approval_engine.py), together with the model  *)
(* hook Approval.save / update_expense_status (expenses/models.py) that    *)
(* runs on every Approval.objects.create, and the review endpoint          *)
(* ExpenseReviewView.post (expenses/approval_api.py) that loads the        *)
(* expense and calls the engine.                                           *)
(*                                                                         *)
(* The store holds one expense, its Approval rows and the company's rule   *)
(* table.  The engine reads expense.metadata and rule.approval_flow /      *)
(* rule.conditions; the model gives the rows those attributes next to the  *)
(* fields models.py declares (approval_chain, current_approver, ...).      *)
(*                                                                         *)
(* Specifications:                                                         *)
(*   Spec      reviews run one after another (one request at a time);      *)
(*   SpecConc  NumProcs requests run concurrently; a request loads the     *)
(*             expense, validates, then records and commits.  Reads see    *)
(*             committed rows; the writers are serialized by the row lock  *)
(*             the hook's expense.save() takes, so record+commit is one    *)
(*             step.  Nothing in the code locks before the reads.          *)
(*   SpecOps   one call at a time on an expense from draft on: submission, *)
(*             engine reviews, the approve / reject endpoints and rule     *)
(*             administration.                                             *)
(*   SpecRows  one call at a time on an expense under a rule naming a      *)
(*             specific approver: submission, the approve / reject         *)
(*             endpoints and the approvals endpoint saving Approval rows.  *)
(*   SpecLive  approvals only under the all_managers rule, with weak       *)
(*             fairness for every reviewer.                                *)
(***************************************************************************)
EXTENDS Integers, Sequences, FiniteSets, TLC

VARIABLES
    rules,      \* ApprovalRule table of the company: a set of rule rows
    expense,    \* the stored Expense row
    approvals,  \* the stored Approval rows of the expense, in insertion order
    req         \* the review requests: position, inputs, loaded expense, result

vars == <<rules, expense, approvals, req>>

None == "none"

\* Concurrent requests of SpecConc.
NumProcs == 2
Procs == 1..NumProcs

-----------------------------------------------------------------------------
(* Users (models.User): role, company, email.                              *)

Users == {"emp1", "mgr1", "mgr2", "adm1", "out1"}

\* The user table: the users above and old1, a deactivated manager.
Staff == Users \cup {"old1"}

role == [emp1 |-> "employee", mgr1 |-> "manager", mgr2 |-> "manager",
         adm1 |-> "admin", out1 |-> "manager", old1 |-> "manager"]

company == [emp1 |-> "c1", mgr1 |-> "c1", mgr2 |-> "c1",
            adm1 |-> "c1", out1 |-> "c2", old1 |-> "c1"]

email == [u \in Staff |-> u]

is_active == [u \in Staff |-> u # "old1"]

Actions == {"approve", "reject"}

Comments == {"", "not valid"}

-----------------------------------------------------------------------------
(* Approver configurations: Python dicts; a key is present iff it is in    *)
(* the DOMAIN of the record.                                               *)

RoleSpec(r) == [role |-> r]
UserSpec(u) == [user_id |-> u]
LevelSpec(n) == [min_level |-> n]
AutoSpec(r) == [role |-> r, auto_approve |-> TRUE]
\* The dict {}: no key is present.
EmptySpec == [k \in {} |-> TRUE]

Get(d, k, default) == IF k \in DOMAIN d THEN d[k] ELSE default

UserLevel(r) ==
    CASE r = "employee" -> 1
      [] r = "manager" -> 2
      [] r = "admin" -> 3
      [] OTHER -> 0

_matches_approver_config(user, config) ==
    /\ ("role" \in DOMAIN config => role[user] = config.role)
    /\ ("user_id" \in DOMAIN config => user = config.user_id)
    /\ ("email" \in DOMAIN config => email[user] = config.email)
    /\ ("min_level" \in DOMAIN config => UserLevel(role[user]) >= config.min_level)

-----------------------------------------------------------------------------
(* Rules.  A rule row: id, is_active, min_amount, max_amount (0 = unset),  *)
(* conditions.categories, approval_flow.                                   *)

NoRule == [id |-> None]

Rule(id, lo, hi, flow) ==
    [id |-> id, is_active |-> TRUE, min_amount |-> lo, max_amount |-> hi,
     categories |-> {}, approval_flow |-> flow]

Sequential(chain) == [strategy |-> "sequential", approvers |-> chain]
Percentage(pct, eligible) ==
    [strategy |-> "percentage", percentage_required |-> pct,
     eligible_approvers |-> eligible]
AllManagers(eligible) ==
    [strategy |-> "all_managers", eligible_approvers |-> eligible]
AnyManager == [strategy |-> "any_manager"]
Special(specials, chain) ==
    [strategy |-> "special_approver", special_approvers |-> specials,
     approvers |-> chain]

ExpenseAmount == 300

RuleCatalog ==
    { Rule("seq2", 100, 500, Sequential(<<RoleSpec("manager"), RoleSpec("admin")>>)),
      Rule("seq3", 100, 500, Sequential(<<RoleSpec("manager"), UserSpec("adm1"),
                                          UserSpec("mgr2")>>)),
      Rule("seqmm", 100, 500, Sequential(<<RoleSpec("manager"), RoleSpec("manager"),
                                           RoleSpec("admin")>>)),
      Rule("pct60", 100, 500, Percentage(60, <<RoleSpec("manager"), RoleSpec("manager")>>)),
      Rule("pct50", 100, 500, Percentage(50, <<RoleSpec("manager")>>)),
      Rule("pctid", 100, 500, Percentage(60, <<UserSpec("mgr1"), UserSpec("mgr2")>>)),
      Rule("allm", 100, 500, AllManagers(<<RoleSpec("manager")>>)),
      Rule("anym", 100, 500, AnyManager),
      Rule("spec", 100, 500, Special(<<AutoSpec("admin")>>,
                                     <<RoleSpec("manager"), RoleSpec("manager")>>)),
      Rule("far", 1000, 5000, Sequential(<<RoleSpec("manager"), RoleSpec("admin")>>)),
      Rule("alla", 100, 500, AllManagers(<<RoleSpec("admin")>>)),
      Rule("seqe", 100, 500, Sequential(<<EmptySpec>>)),
      Rule("specn", 100, 500, Special(<<RoleSpec("admin")>>,
                                      <<RoleSpec("manager"), RoleSpec("manager")>>)) }

RuleTables == {{}} \cup {{r} : r \in RuleCatalog}

\* Lines 443-464: the active rules in ascending min_amount order, the first
\* whose amount range and categories admit the expense.
Applicable(exp, rule) ==
    /\ rule.is_active
    /\ ~(rule.min_amount # 0 /\ exp.amount < rule.min_amount)
    /\ ~(rule.max_amount # 0 /\ exp.amount > rule.max_amount)
    /\ (rule.categories # {} => exp.category \in rule.categories)

_get_approval_rule(exp, rls) ==
    LET pinned == {r \in rls : r.id = exp.metadata.approval_rule_id}
        match == {r \in rls : Applicable(exp, r)}
    IN  IF exp.metadata.approval_rule_id # None /\ pinned # {}
        THEN CHOOSE r \in pinned : TRUE
        ELSE IF match = {} THEN NoRule
        ELSE CHOOSE r \in match : \A s \in match : r.min_amount <= s.min_amount


-----------------------------------------------------------------------------
(* Approval rows: [approver, status, comment].                             *)

ApprovedBy(apps) == {apps[i].approver : i \in {j \in DOMAIN apps : apps[j].status = "approved"}}

CountApproved(apps) == Cardinality({i \in DOMAIN apps : apps[i].status = "approved"})

CountApprovedByRoles(apps, roles) ==
    Cardinality({i \in DOMAIN apps :
                    apps[i].status = "approved" /\ role[apps[i].approver] \in roles})

\* Fault model of SequentialAuthorized: membership in the chain instead of
\* the spec at the current level.
SequentialAuthorized_AnyStep(apps, approver, approvers) ==
    /\ CountApproved(apps) < Len(approvers)
    /\ \E i \in DOMAIN approvers : _matches_approver_config(approver, approvers[i])

\* Lines 363-373: the reviewer must match the spec at index count(approved).
SequentialAuthorized(apps, approver, approvers) ==
    LET current_level == CountApproved(apps)
    IN  /\ current_level < Len(approvers)
        /\ _matches_approver_config(approver, approvers[current_level + 1])

_is_authorized_by_rule(apps, approver, approval_flow) ==
    LET strategy == Get(approval_flow, "strategy", "sequential")
    IN  CASE strategy = "sequential" ->
                SequentialAuthorized(apps, approver, Get(approval_flow, "approvers", <<>>))
          [] strategy \in {"percentage", "all_managers"} ->
                LET eligible == Get(approval_flow, "eligible_approvers", <<>>)
                IN  \E i \in DOMAIN eligible : _matches_approver_config(approver, eligible[i])
          [] strategy = "any_manager" ->
                role[approver] \in {"manager", "admin"}
          [] strategy = "special_approver" ->
                LET special == Get(approval_flow, "special_approvers", <<>>)
                IN  \/ \E i \in DOMAIN special : _matches_approver_config(approver, special[i])
                    \/ SequentialAuthorized(apps, approver, Get(approval_flow, "approvers", <<>>))
          [] OTHER -> FALSE

\* Fault models of _is_valid_approver: without the owner check (lines
\* 332-334), and without the already-approved check (lines 336-344).
_is_valid_approver_OwnerAllowed(exp, apps, rls, approver) ==
    LET approval_rule == _get_approval_rule(exp, rls)
    IN  /\ company[exp.owner] = company[approver]
        /\ approver \notin ApprovedBy(apps)
        /\ IF approval_rule = NoRule
           THEN role[approver] \in {"manager", "admin"}
           ELSE _is_authorized_by_rule(apps, approver, approval_rule.approval_flow)

_is_valid_approver_RepeatAllowed(exp, apps, rls, approver) ==
    LET approval_rule == _get_approval_rule(exp, rls)
    IN  /\ company[exp.owner] = company[approver]
        /\ exp.owner # approver
        /\ IF approval_rule = NoRule
           THEN role[approver] \in {"manager", "admin"}
           ELSE _is_authorized_by_rule(apps, approver, approval_rule.approval_flow)

_is_valid_approver(exp, apps, rls, approver) ==
    LET approval_rule == _get_approval_rule(exp, rls)
    IN  /\ company[exp.owner] = company[approver]
        /\ exp.owner # approver
        /\ approver \notin ApprovedBy(apps)
        /\ IF approval_rule = NoRule
           THEN role[approver] \in {"manager", "admin"}
           ELSE _is_authorized_by_rule(apps, approver, approval_rule.approval_flow)

-----------------------------------------------------------------------------
(* models.py: Expense.get_next_approver and the Approval.save hook.        *)

AttributeError == "AttributeError"

IndexOf(seq, x) == CHOOSE i \in DOMAIN seq : seq[i] = x /\ \A j \in 1..(i-1) : seq[j] # x

get_next_approver(exp) ==
    IF exp.approval_chain = <<>> THEN None
    ELSE IF exp.current_approver = None THEN AttributeError
    ELSE IF \A i \in DOMAIN exp.approval_chain : exp.approval_chain[i] # exp.current_approver
         THEN None
    ELSE LET current_index == IndexOf(exp.approval_chain, exp.current_approver)
         IN  IF current_index + 1 <= Len(exp.approval_chain)
             THEN exp.approval_chain[current_index + 1]
             ELSE None

\* models.py line 268: is_final_approval defaults to False; the engine's
\* rows never set it.
is_final_approval(row) == Get(row, "is_final_approval", FALSE)

\* get_next_approver raises AttributeError when the chain is set and
\* current_approver is None; only ValueError and DoesNotExist are caught.
\* It is not evaluated for a row flagged final.
update_expense_status_raises(exp, row) ==
    /\ row.status = "approved"
    /\ ~is_final_approval(row)
    /\ get_next_approver(exp) = AttributeError

\* Fault model of update_expense_status: an approved row that is not
\* flagged final never approves the expense.
update_expense_status_FinalOnly(exp, row) ==
    IF row.status = "rejected"
    THEN [exp EXCEPT !.status = "rejected", !.current_approver = None]
    ELSE IF row.status = "approved" /\ is_final_approval(row)
    THEN [exp EXCEPT !.status = "approved", !.approved_at = TRUE,
                     !.current_approver = None]
    ELSE exp

update_expense_status(exp, row) ==
    IF row.status = "rejected"
    THEN [exp EXCEPT !.status = "rejected", !.current_approver = None]
    ELSE IF row.status = "approved"
    THEN IF is_final_approval(row) \/ get_next_approver(exp) = None
         THEN [exp EXCEPT !.status = "approved", !.approved_at = TRUE,
                          !.current_approver = None]
         ELSE [exp EXCEPT !.current_approver = get_next_approver(exp)]
    ELSE exp

-----------------------------------------------------------------------------
(* approval_engine.py: recording a review.  Each operator returns          *)
(* [result, expense]: the 'action' of the returned dict (or the error      *)
(* raised) and the expense row as saved.                                   *)

_handle_rejection(exp, row) ==
    [result |-> "rejected",
     expense |-> [exp EXCEPT !.status = "rejected",
                             !.metadata.rejection_reason = row.comment,
                             !.metadata.rejected_by = row.approver,
                             !.metadata.final_status = "rejected"]]

_finalize_approval(exp, row, reason) ==
    [result |-> "fully_approved",
     expense |-> [exp EXCEPT !.status = "approved",
                             !.metadata.final_approver = row.approver,
                             !.metadata.approval_reason = reason,
                             !.metadata.final_status = "approved"]]

\* apps holds the rows the count queries see, the new row included.
_process_sequential_approval(exp, apps, row, approval_rule) ==
    LET approval_chain == Get(approval_rule.approval_flow, "approvers", <<>>)
        current_approvals == CountApproved(apps)
    IN  IF current_approvals >= Len(approval_chain)
        THEN _finalize_approval(exp, row, "sequential_complete")
        ELSE [result |-> "approved_pending_next", expense |-> exp]

_process_percentage_approval(exp, apps, row, approval_rule) ==
    LET required_percentage == Get(approval_rule.approval_flow, "percentage_required", 60)
        eligible_approvers == Get(approval_rule.approval_flow, "eligible_approvers", <<>>)
        total_eligible == Len(eligible_approvers)
        approved_count ==
            CountApprovedByRoles(apps, {Get(eligible_approvers[i], "role", None) :
                                            i \in DOMAIN eligible_approvers})
        \* current_percentage = approved_count / total_eligible * 100, or 0
        met == IF total_eligible > 0
               THEN approved_count * 100 >= required_percentage * total_eligible
               ELSE 0 >= required_percentage
    IN  IF met
        THEN _finalize_approval(exp, row, "percentage_met")
        ELSE [result |-> "approved_pending_percentage", expense |-> exp]

_process_special_approver(exp, apps, row, approval_rule) ==
    LET special_approvers == Get(approval_rule.approval_flow, "special_approvers", <<>>)
    IN  IF \E i \in DOMAIN special_approvers :
                /\ _matches_approver_config(row.approver, special_approvers[i])
                /\ Get(special_approvers[i], "auto_approve", FALSE)
        THEN _finalize_approval(exp, row, "special_approver")
        ELSE _process_sequential_approval(exp, apps, row, approval_rule)

_process_any_manager_approval(exp, apps, row, approval_rule) ==
    IF role[row.approver] \in {"manager", "admin"}
    THEN _finalize_approval(exp, row, "any_manager_approve")
    ELSE [result |-> "ValidationError", expense |-> exp]

_process_all_managers_approval(exp, apps, row, approval_rule) ==
    LET all_managers == {u \in Staff : /\ company[u] = company[exp.owner]
                                       /\ role[u] = "manager"
                                       /\ is_active[u]}
        approved_managers == CountApprovedByRoles(apps, {"manager"})
        total_managers == Cardinality(all_managers)
    IN  IF approved_managers >= total_managers
        THEN _finalize_approval(exp, row, "all_managers_approved")
        ELSE [result |-> "approved_pending_all_managers", expense |-> exp]

\* Fault model of _handle_approval: without the no-rule branch (lines
\* 155-157), an expense without a rule waits for a next approver.
_handle_approval_NoRulePending(exp, apps, row, rls) ==
    LET approval_rule == _get_approval_rule(exp, rls)
    IN  IF approval_rule = NoRule
        THEN [result |-> "approved_pending_next", expense |-> exp]
        ELSE _process_sequential_approval(exp, apps, row, approval_rule)

_handle_approval(exp, apps, row, rls) ==
    LET approval_rule == _get_approval_rule(exp, rls)
        strategy == Get(approval_rule.approval_flow, "strategy", "sequential")
    IN  IF approval_rule = NoRule
        THEN _finalize_approval(exp, row, "no_rule_auto_approve")
        ELSE CASE strategy = "percentage" ->
                    _process_percentage_approval(exp, apps, row, approval_rule)
               [] strategy = "special_approver" ->
                    _process_special_approver(exp, apps, row, approval_rule)
               [] strategy = "any_manager" ->
                    _process_any_manager_approval(exp, apps, row, approval_rule)
               [] strategy = "all_managers" ->
                    _process_all_managers_approval(exp, apps, row, approval_rule)
               [] OTHER ->
                    _process_sequential_approval(exp, apps, row, approval_rule)

\* Results that are errors: the exception leaves transaction.atomic().
Failures == {"NotAuthorized", "StateConflict", "ValidationError",
             "AttributeError", "IntegrityError"}

\* Fault model of Validate: without the status check (lines 99-100).
Validate_NoStatusCheck(exp, apps, rls, approver) ==
    IF ~_is_valid_approver(exp, apps, rls, approver) THEN "NotAuthorized" ELSE "ok"

\* Lines 96-100: the checks before the row is created.  exp is the expense
\* object the caller loaded, apps the Approval rows the queries see.
Validate(exp, apps, rls, approver) ==
    IF ~_is_valid_approver(exp, apps, rls, approver) THEN "NotAuthorized"
    ELSE IF exp.status \notin {"pending", "submitted"} THEN "StateConflict"
    ELSE "ok"

\* Lines 103-118: create the row (unique_together (expense, approver), then
\* the save hook), then reject or approve.  Returns [result, expense,
\* approvals]: the rows as written when the call returned or raised.
RecordReview(exp, apps, rls, approver, action, comment) ==
    LET row == [approver |-> approver,
                status |-> IF action = "approve" THEN "approved" ELSE "rejected",
                comment |-> comment]
        apps2 == Append(apps, row)
        hooked == update_expense_status(exp, row)
        out == IF action = "reject"
               THEN _handle_rejection(hooked, row)
               ELSE _handle_approval(hooked, apps2, row, rls)
    IN  IF \E i \in DOMAIN apps : apps[i].approver = approver
        THEN [result |-> "IntegrityError", expense |-> exp, approvals |-> apps]
        ELSE IF update_expense_status_raises(exp, row)
        THEN [result |-> "AttributeError", expense |-> exp, approvals |-> apps2]
        ELSE [result |-> out.result, expense |-> out.expense, approvals |-> apps2]

\* Fault model of Committed: no transaction, the writes made before the
\* exception stay.
Committed_NoRollback(stored_exp, stored_apps, out) ==
    [expense |-> out.expense, approvals |-> out.approvals]

\* transaction.atomic() (line 94): an exception rolls the writes back.
Committed(stored_exp, stored_apps, out) ==
    IF out.result \in Failures
    THEN [expense |-> stored_exp, approvals |-> stored_apps]
    ELSE [expense |-> out.expense, approvals |-> out.approvals]

\* process_approval_review as one call on the loaded expense exp.
process_approval_review(exp, apps, rls, approver, action, comment) ==
    IF Validate(exp, apps, rls, approver) # "ok"
    THEN [result |-> Validate(exp, apps, rls, approver),
          expense |-> exp, approvals |-> apps]
    ELSE RecordReview(exp, apps, rls, approver, action, comment)

-----------------------------------------------------------------------------
(* State.                                                                  *)

NoMetadata(rule_id) ==
    [approval_rule_id |-> rule_id, rejection_reason |-> None, rejected_by |-> None,
     final_approver |-> None, approval_reason |-> None, final_status |-> None]

Owners == {"emp1", "mgr1", "adm1"}

\* approval_chain / current_approver as stored at submission: the default
\* (expense_api.py), a chain of user ids with its first user current
\* (views.py submit, create_sample_data), and a chain whose current approver
\* was cleared (ForeignKey on_delete = SET_NULL, admin edit).
ChainInits ==
    { [chain |-> <<>>, current |-> None],
      [chain |-> <<"mgr1", "adm1">>, current |-> "mgr1"],
      [chain |-> <<"mgr1", "mgr2", "adm1">>, current |-> "mgr1"],
      [chain |-> <<"mgr1", "adm1">>, current |-> None] }

InitStatuses == {"pending", "draft"}

\* A request that is not running holds no expense object.
IdleReq ==
    [pc |-> "idle", approver |-> None, action |-> None, comment |-> "",
     expense |-> None, result |-> None]

Init ==
    /\ rules \in RuleTables
    /\ approvals = <<>>
    /\ \E owner \in Owners, ci \in ChainInits, st \in InitStatuses,
          rid \in {None} \cup {r.id : r \in rules} :
          expense = [owner |-> owner, amount |-> ExpenseAmount, category |-> "Travel",
                     status |-> st, approval_chain |-> ci.chain,
                     current_approver |-> ci.current, approved_at |-> FALSE,
                     metadata |-> NoMetadata(rid)]
    /\ req = [p \in Procs |-> IdleReq]

-----------------------------------------------------------------------------
(* Spec: one review at a time.  ExpenseReviewView.post loads the expense,  *)
(* calls the engine inside transaction.atomic() and answers.               *)

Review(approver, action, comment) ==
    LET out == process_approval_review(expense, approvals, rules, approver, action, comment)
        db == Committed(expense, approvals, out)
    IN  /\ expense' = db.expense
        /\ approvals' = db.approvals
        /\ req' = [req EXCEPT ![1] = [IdleReq EXCEPT !.approver = approver,
                                                     !.action = action,
                                                     !.comment = comment,
                                                     !.result = out.result]]
        /\ UNCHANGED rules

Next == \E approver \in Users, action \in Actions, comment \in Comments :
            Review(approver, action, comment)

Spec == Init /\ [][Next]_vars

-----------------------------------------------------------------------------
(* SpecConc: concurrent requests on a pending expense.                     *)

ConcRuleIds == {"seq2", "seqmm", "pct60", "allm"}

ConcChainInits == {ci \in ChainInits : ci.current # None \/ ci.chain = <<>>}

ConcComments == {""}

InitConc ==
    /\ rules \in {{}} \cup {{r} : r \in {c \in RuleCatalog : c.id \in ConcRuleIds}}
    /\ approvals = <<>>
    /\ \E ci \in ConcChainInits, rid \in {None} \cup {r.id : r \in rules} :
          /\ (rules # {} => rid # None)
          /\ Len(ci.chain) <= 2
          /\ expense = [owner |-> "emp1", amount |-> ExpenseAmount, category |-> "Travel",
                        status |-> "pending", approval_chain |-> ci.chain,
                        current_approver |-> ci.current, approved_at |-> FALSE,
                        metadata |-> NoMetadata(rid)]
    /\ req = [p \in Procs |-> IdleReq]

\* approval_api.py line 154: get_object_or_404(Expense, id = expense_id).
\* A new request takes the lowest free slot.
Fetch(p, approver, action, comment) ==
    /\ req[p].pc = "idle"
    /\ \A q \in Procs : q < p => req[q].pc # "idle"
    /\ req' = [req EXCEPT ![p] = [pc |-> "fetched", approver |-> approver,
                                  action |-> action, comment |-> comment,
                                  expense |-> expense, result |-> None]]
    /\ UNCHANGED <<rules, expense, approvals>>

\* approval_engine.py lines 96-100, on the loaded expense and the stored rows.
Check(p) ==
    /\ req[p].pc = "fetched"
    /\ LET v == Validate(req[p].expense, approvals, rules, req[p].approver)
       IN  req' = [req EXCEPT ![p] = IF v = "ok"
                                          THEN [@ EXCEPT !.pc = "validated"]
                                          ELSE [IdleReq EXCEPT !.result = v]]
    /\ UNCHANGED <<rules, expense, approvals>>

\* approval_engine.py lines 103-118 and the commit.
Record(p) ==
    /\ req[p].pc = "validated"
    /\ LET out == RecordReview(req[p].expense, approvals, rules,
                               req[p].approver, req[p].action, req[p].comment)
           db == Committed(expense, approvals, out)
       IN  /\ expense' = db.expense
           /\ approvals' = db.approvals
           /\ req' = [req EXCEPT ![p] = [IdleReq EXCEPT !.result = out.result]]
    /\ UNCHANGED rules

NextConc ==
    \/ \E p \in Procs, approver \in Users, action \in Actions, comment \in ConcComments :
            Fetch(p, approver, action, comment)
    \/ \E p \in Procs : Check(p)
    \/ \E p \in Procs : Record(p)

SpecConc == InitConc /\ [][NextConc]_vars

-----------------------------------------------------------------------------
(* SpecOps: the operations on one expense from draft on, one call at a     *)
(* time: submission (views.py submit, secure_expense_api.py                *)
(* submit_expense), reviews through the engine, the approve and reject     *)
(* endpoints of secure_expense_api.py, and rule administration.  Rule rows *)
(* carry priority and approvers (models.py) next to the engine's           *)
(* approval_flow; the expense row carries approval_rule and submitted_at.  *)

\* Largest number of rule rows in the company's table.
MaxRules == 2

OpsRule(id, lo, hi, prio, approvers, flow) ==
    [id |-> id, is_active |-> TRUE, min_amount |-> lo, max_amount |-> hi,
     categories |-> {}, approval_flow |-> flow,
     priority |-> prio, approvers |-> approvers, specific_approver |-> None]

\* The min_amount values differ, so order_by('min_amount') is a total order.
OpsCatalog ==
    { OpsRule("lo", 100, 500, 1, <<"mgr1", "adm1">>,
              Sequential(<<RoleSpec("manager"), RoleSpec("admin")>>)),
      OpsRule("hi", 200, 0, 5, <<"adm1">>, AnyManager),
      OpsRule("pct", 130, 500, 1, <<"mgr1", "adm1">>,
              Percentage(60, <<RoleSpec("manager"), RoleSpec("admin")>>)) }

OpsTables == {t \in SUBSET OpsCatalog : Cardinality(t) <= MaxRules}

Priorities == {1, 5}

OpsReviewers == {"mgr1", "adm1", "old1"}

Submitters == {"emp1", "adm1"}

\* expense_api.py lines 235-270: the id stored in metadata.approval_rule_id
\* when the expense is created: the first active rule in ascending
\* min_amount order whose range and categories admit the expense.
_link_approval_rules(exp, rls) ==
    LET match == {r \in rls : Applicable(exp, r)}
    IN  IF match = {} THEN None
        ELSE (CHOOSE r \in match : \A t \in match : r.min_amount <= t.min_amount).id

\* order_by('-priority'): the rules that can come first among match; rows
\* of equal priority come in an order the query does not fix.
FirstByPriority(match) == {r \in match : \A t \in match : r.priority >= t.priority}

\* views.py lines 101-113: the rule the loop applies, NoRule when it ends
\* without one.
SubmitChoices(exp, rls) ==
    LET match == {r \in rls : Applicable(exp, r)}
    IN  IF match = {} THEN {NoRule} ELSE FirstByPriority(match)

\* views.py lines 84-130, ExpenseViewSet.submit, with the rule its loop found.
submit(exp, user, rule) ==
    IF exp.owner # user THEN [result |-> "Forbidden", expense |-> exp]
    ELSE IF exp.status # "draft" THEN [result |-> "BadRequest", expense |-> exp]
    ELSE IF rule = NoRule THEN [result |-> "BadRequest", expense |-> exp]
    ELSE [result |-> "submitted",
          expense |-> [exp EXCEPT !.approval_rule = rule.id,
                                  !.approval_chain = rule.approvers,
                                  !.current_approver =
                                      IF rule.approvers # <<>> THEN rule.approvers[1] ELSE @,
                                  !.status = "pending",
                                  !.submitted_at = TRUE]]

\* secure_expense_api.py lines 707-735: amount_range carries the rule's
\* bounds (no max = unbounded); categories are not looked at.
find_applicable_approval_rule(exp, rls) ==
    LET match == {r \in rls : /\ r.is_active
                              /\ exp.amount >= r.min_amount
                              /\ (r.max_amount = 0 \/ exp.amount <= r.max_amount)}
    IN  IF match = {} THEN {NoRule} ELSE FirstByPriority(match)

\* secure_expense_api.py lines 738-761: the specific approver comes before
\* the first of the approver list.
create_approval_steps(exp, approval_rule) ==
    IF approval_rule.specific_approver # None
    THEN [exp EXCEPT !.current_approver = approval_rule.specific_approver]
    ELSE IF approval_rule.approvers # <<>>
    THEN [exp EXCEPT !.current_approver = approval_rule.approvers[1]]
    ELSE exp

\* secure_expense_api.py lines 473-534, submit_expense.
submit_expense(exp, user, approval_rule) ==
    IF exp.owner # user /\ role[user] # "admin"
    THEN [result |-> "Forbidden", expense |-> exp]
    ELSE IF exp.status # "draft" THEN [result |-> "BadRequest", expense |-> exp]
    ELSE IF approval_rule = NoRule THEN [result |-> "BadRequest", expense |-> exp]
    ELSE [result |-> "submitted",
          expense |-> [create_approval_steps(exp, approval_rule) EXCEPT !.status = "pending"]]

\* Fault model of UpsertRow: create instead of get_or_create, on a table
\* without unique_together.
UpsertRow_AlwaysCreate(apps, user, st, comment) ==
    Append(apps, [approver |-> user, status |-> st, comment |-> comment])

\* get_or_create (secure_expense_api.py lines 567-582, 657-672): the row of
\* (expense, user) is created, or the existing one is updated.
UpsertRow(apps, user, st, comment) ==
    IF \E i \in DOMAIN apps : apps[i].approver = user
    THEN [i \in DOMAIN apps |->
            IF apps[i].approver = user
            THEN [apps[i] EXCEPT !.status = st, !.comment = comment]
            ELSE apps[i]]
    ELSE Append(apps, [approver |-> user, status |-> st, comment |-> comment])

\* permissions.py lines 601-607 and secure_expense_api.py lines 560-565:
\* admins pass the permission check, the others must be the current
\* approver; then the endpoint requires the current approver.
EndpointGuard(exp, user) ==
    IF role[user] # "admin" /\ exp.current_approver # user THEN "Forbidden"
    ELSE IF exp.current_approver = None \/ exp.current_approver # user THEN "BadRequest"
    ELSE "ok"

\* secure_expense_api.py lines 539-618, approve_expense.  The save hook runs
\* on the row (created with is_final_approval = True, or updated); the
\* endpoint then stores status, approved_at and current_approver itself.
approve_expense(exp, apps, user, comment) ==
    IF EndpointGuard(exp, user) # "ok"
    THEN [result |-> EndpointGuard(exp, user), expense |-> exp, approvals |-> apps]
    ELSE [result |-> "endpoint_approved",
          expense |-> [exp EXCEPT !.status = "approved", !.approved_at = TRUE,
                                  !.current_approver = None],
          approvals |-> UpsertRow(apps, user, "approved", comment)]

\* secure_expense_api.py lines 622-700, reject_expense (the reason is required).
reject_expense(exp, apps, user, reason) ==
    IF EndpointGuard(exp, user) # "ok"
    THEN [result |-> EndpointGuard(exp, user), expense |-> exp, approvals |-> apps]
    ELSE [result |-> "endpoint_rejected",
          expense |-> [exp EXCEPT !.status = "rejected", !.current_approver = None],
          approvals |-> UpsertRow(apps, user, "rejected", reason)]

\* The answer of a call: who called, which operation, the outcome.
Answer(op, user, result) ==
    [req EXCEPT ![1] = [IdleReq EXCEPT !.approver = user, !.action = op,
                                       !.result = result]]

\* A draft expense of emp1, created through expense_api.py (rule linked in
\* metadata) or through an endpoint that links nothing.
InitOps ==
    /\ rules \in OpsTables
    /\ approvals = <<>>
    /\ \E linked \in BOOLEAN :
          LET e == [owner |-> "emp1", amount |-> ExpenseAmount, category |-> "Travel",
                    status |-> "draft", approval_chain |-> <<>>,
                    current_approver |-> None, approved_at |-> FALSE,
                    approval_rule |-> None, submitted_at |-> FALSE,
                    metadata |-> NoMetadata(None)]
          IN  expense = IF linked
                        THEN [e EXCEPT !.metadata.approval_rule_id =
                                            _link_approval_rules(e, rules)]
                        ELSE e
    /\ req = [p \in Procs |-> IdleReq]

Submit(user) ==
    \E rule \in SubmitChoices(expense, rules) :
        LET out == submit(expense, user, rule)
        IN  /\ expense' = out.expense
            /\ req' = Answer("submit", user, out.result)
            /\ UNCHANGED <<rules, approvals>>

SecureSubmit(user) ==
    \E rule \in find_applicable_approval_rule(expense, rules) :
        LET out == submit_expense(expense, user, rule)
        IN  /\ expense' = out.expense
            /\ req' = Answer("secure_submit", user, out.result)
            /\ UNCHANGED <<rules, approvals>>

\* approval_engine.py lines 79-122: the engine's review operation, for any
\* row of the user table.
EngineReview(approver, action, comment) ==
    LET out == process_approval_review(expense, approvals, rules, approver, action, comment)
        db == Committed(expense, approvals, out)
    IN  /\ expense' = db.expense
        /\ approvals' = db.approvals
        /\ req' = [req EXCEPT ![1] = [IdleReq EXCEPT !.approver = approver,
                                                     !.action = action,
                                                     !.comment = comment,
                                                     !.result = out.result]]
        /\ UNCHANGED rules

ApproveEndpoint(user) ==
    LET out == approve_expense(expense, approvals, user, "")
    IN  /\ expense' = out.expense
        /\ approvals' = out.approvals
        /\ req' = Answer("approve_endpoint", user, out.result)
        /\ UNCHANGED rules

RejectEndpoint(user) ==
    LET out == reject_expense(expense, approvals, user, "not valid")
    IN  /\ expense' = out.expense
        /\ approvals' = out.approvals
        /\ req' = Answer("reject_endpoint", user, out.result)
        /\ UNCHANGED rules

\* The rule table is administered until the expense is approved or rejected.
InWorkflow == expense.status \in {"draft", "pending", "submitted"}

\* approval_rule_api.py lines 519-548: delete is a soft delete.
DeactivateRule(id) ==
    /\ InWorkflow
    /\ \E r \in rules :
          /\ r.id = id /\ r.is_active
          /\ rules' = (rules \ {r}) \cup {[r EXCEPT !.is_active = FALSE]}
    /\ req' = Answer("rule_admin", None, "deactivated")
    /\ UNCHANGED <<expense, approvals>>

\* secure_approval_rules_api.py lines 421-455: refused while an expense
\* references the rule through approval_rule.
DeleteRule(id) ==
    /\ InWorkflow
    /\ \E r \in rules :
          /\ r.id = id /\ expense.approval_rule # id
          /\ rules' = rules \ {r}
    /\ req' = Answer("rule_admin", None, "deleted")
    /\ UNCHANGED <<expense, approvals>>

\* approval_rule_api.py lines 590-612: bulk_update_priorities.
SetPriority(id, prio) ==
    /\ InWorkflow
    /\ \E r \in rules :
          /\ r.id = id /\ r.priority # prio
          /\ rules' = (rules \ {r}) \cup {[r EXCEPT !.priority = prio]}
    /\ req' = Answer("rule_admin", None, "priority")
    /\ UNCHANGED <<expense, approvals>>

\* approval_rule_api.py lines 318-352: a new rule row.
CreateRule(rule) ==
    /\ InWorkflow
    /\ Cardinality(rules) < MaxRules
    /\ \A r \in rules : r.id # rule.id
    /\ rules' = rules \cup {rule}
    /\ req' = Answer("rule_admin", None, "created")
    /\ UNCHANGED <<expense, approvals>>

NextOps ==
    \/ \E user \in Submitters : Submit(user)
    \/ \E user \in Submitters : SecureSubmit(user)
    \/ \E approver \in OpsReviewers, action \in Actions :
            EngineReview(approver, action, "")
    \/ \E user \in OpsReviewers : ApproveEndpoint(user)
    \/ \E user \in OpsReviewers : RejectEndpoint(user)
    \/ \E r \in rules : DeactivateRule(r.id)
    \/ \E r \in rules : DeleteRule(r.id)
    \/ \E r \in rules, prio \in Priorities : SetPriority(r.id, prio)
    \/ \E rule \in OpsCatalog : CreateRule(rule)

SpecOps == InitOps /\ [][NextOps]_vars

-----------------------------------------------------------------------------
(* SpecRows: one expense under a rule row that names a specific approver   *)
(* (models.py lines 128-136), from its creation on: the two submit         *)
(* endpoints, the approve and reject endpoints of secure_expense_api.py,   *)
(* and the approvals endpoint (views.py ApprovalViewSet), which saves      *)
(* Approval rows without the engine.  One call at a time.                  *)

StepsRule(id, approvers, specific) ==
    [OpsRule(id, 100, 500, 1, approvers, EmptySpec) EXCEPT !.specific_approver = specific]

\* test_step17_comprehensive.py lines 336-395: a rule with a specific
\* approver only, a hybrid rule, a chain of two and a rule that names nobody.
RowsCatalog ==
    { StepsRule("spc", <<>>, "adm1"),
      StepsRule("hyb", <<"mgr1">>, "adm1"),
      StepsRule("two", <<"mgr1", "adm1">>, None),
      StepsRule("nil", <<>>, None) }

RowsUsers == {"mgr1", "adm1"}

RowStatuses == {"pending", "approved", "rejected"}

\* The expense is a draft, or was created pending under its rule without a
\* submit call (test_step17_comprehensive.py lines 463-472).
InitRows ==
    /\ \E r \in RowsCatalog : rules = {r}
    /\ approvals = <<>>
    /\ \E direct \in BOOLEAN :
          LET e == [owner |-> "emp1", amount |-> ExpenseAmount, category |-> "Travel",
                    status |-> "draft", approval_chain |-> <<>>,
                    current_approver |-> None, approved_at |-> FALSE,
                    approval_rule |-> None, submitted_at |-> FALSE,
                    metadata |-> NoMetadata(None)]
          IN  expense = IF direct
                        THEN [e EXCEPT !.status = "pending",
                                       !.approval_rule = (CHOOSE r \in rules : TRUE).id]
                        ELSE e
    /\ req = [p \in Procs |-> IdleReq]

\* models.py lines 283-287, Approval.save outside a transaction: the row is
\* written first, then the hook runs; when the hook raises the row stays
\* and the expense is not saved.
save(exp, apps, row) ==
    IF update_expense_status_raises(exp, row)
    THEN [result |-> AttributeError, expense |-> exp, approvals |-> apps]
    ELSE [result |-> "saved", expense |-> update_expense_status(exp, row),
          approvals |-> apps]

HasRow(apps, user) == \E i \in DOMAIN apps : apps[i].approver = user

RowOf(apps, user) == apps[CHOOSE i \in DOMAIN apps : apps[i].approver = user]

\* views.py lines 150-153 with serializers.py lines 41-51: POST to the
\* approvals endpoint creates a row with the posted status and flag;
\* unique_together refuses a second row of the pair.
CreateApproval(user, st, final) ==
    LET row == [approver |-> user, status |-> st, comment |-> "",
                is_final_approval |-> final]
        out == IF HasRow(approvals, user)
               THEN [result |-> "BadRequest", expense |-> expense, approvals |-> approvals]
               ELSE save(expense, Append(approvals, row), row)
    IN  /\ expense' = out.expense
        /\ approvals' = out.approvals
        /\ req' = Answer("create_row", user, out.result)
        /\ UNCHANGED rules

\* views.py lines 169-213, ApprovalViewSet.approve and reject, on the
\* caller's own row: it must be pending; the status is set and the row saved.
decide(exp, apps, user, st) ==
    IF ~HasRow(apps, user)
    THEN [result |-> "NotFound", expense |-> exp, approvals |-> apps]
    ELSE IF RowOf(apps, user).status # "pending"
    THEN [result |-> "BadRequest", expense |-> exp, approvals |-> apps]
    ELSE LET row == [RowOf(apps, user) EXCEPT !.status = st]
         IN  save(exp,
                  [i \in DOMAIN apps |->
                      IF apps[i].approver = user THEN row ELSE apps[i]],
                  row)

ApprovalApprove(user) ==
    LET out == decide(expense, approvals, user, "approved")
    IN  /\ expense' = out.expense
        /\ approvals' = out.approvals
        /\ req' = Answer("approve_row", user, out.result)
        /\ UNCHANGED rules

ApprovalReject(user) ==
    LET out == decide(expense, approvals, user, "rejected")
    IN  /\ expense' = out.expense
        /\ approvals' = out.approvals
        /\ req' = Answer("reject_row", user, out.result)
        /\ UNCHANGED rules

NextRows ==
    \/ Submit("emp1")
    \/ SecureSubmit("emp1")
    \/ \E user \in RowsUsers : ApproveEndpoint(user)
    \/ \E user \in RowsUsers : RejectEndpoint(user)
    \/ \E user \in RowsUsers, st \in RowStatuses, final \in BOOLEAN :
            CreateApproval(user, st, final)
    \/ \E user \in RowsUsers : ApprovalApprove(user)
    \/ \E user \in RowsUsers : ApprovalReject(user)

SpecRows == InitRows /\ [][NextRows]_vars

-----------------------------------------------------------------------------
(* SpecLive: a pending expense under the all_managers rule, reviewed by    *)
(* approvals only, one at a time.  Every user keeps asking to approve:     *)
(* the fairness condition makes each approval that changes anything        *)
(* eventually happen.                                                      *)

\* The chains a submit leaves: empty, or with its first user as current approver.
LiveChains == {ci \in ChainInits : ci.chain = <<>> \/ ci.current # None}

InitLive ==
    /\ \E r \in RuleCatalog : r.id = "allm" /\ rules = {r}
    /\ approvals = <<>>
    /\ \E owner \in Owners, ci \in LiveChains, rid \in {None, "allm"} :
          expense = [owner |-> owner, amount |-> ExpenseAmount, category |-> "Travel",
                     status |-> "pending", approval_chain |-> ci.chain,
                     current_approver |-> ci.current, approved_at |-> FALSE,
                     metadata |-> NoMetadata(rid)]
    /\ req = [p \in Procs |-> IdleReq]

Approve(approver) == Review(approver, "approve", "")

NextLive == \E approver \in Users : Approve(approver)

SpecLive ==
    InitLive /\ [][NextLive]_vars /\ \A approver \in Users : WF_vars(Approve(approver))

-----------------------------------------------------------------------------
(* Queries.                                                                *)

\* approval_engine.py lines 29-77: whether the expense is in the list
\* returned for approver.  The exclude() spans the approvals relation: it
\* drops an expense that has a row by the approver and has an approved row.
get_pending_approvals_for_user(exp, apps, rls, approver) ==
    /\ company[exp.owner] = company[approver]
    /\ exp.status \in {"pending", "submitted"}
    /\ ~(/\ \E i \in DOMAIN apps : apps[i].approver = approver
         /\ \E i \in DOMAIN apps : apps[i].status = "approved")
    /\ _is_valid_approver(exp, apps, rls, approver)

\* models.py lines 101-103.
can_approve_expenses(user) == role[user] \in {"admin", "manager"}

\* views.py lines 132-148: whether the expense is in the list returned for
\* user (nothing is returned with the 403 answer).
pending_approvals(exp, user) ==
    /\ can_approve_expenses(user)
    /\ exp.current_approver = user
    /\ exp.status = "pending"

\* approval_engine.py lines 417-431: the users .first() can return (the
\* query fixes no order), None when there is none.
_find_approver_by_config(comp, config) ==
    LET queryset == {u \in Staff : company[u] = comp /\ is_active[u]}
        found == IF "user_id" \in DOMAIN config
                 THEN {u \in queryset : u = config.user_id}
                 ELSE IF "email" \in DOMAIN config
                 THEN {u \in queryset : email[u] = config.email}
                 ELSE IF "role" \in DOMAIN config
                 THEN {u \in queryset : role[u] = config.role}
                 ELSE {}
    IN  IF found = {} THEN {None} ELSE found

-----------------------------------------------------------------------------
(* Properties.                                                             *)

CurrentRule == _get_approval_rule(expense, rules)

HasStrategy(strategies) ==
    /\ CurrentRule # NoRule
    /\ Get(CurrentRule.approval_flow, "strategy", "sequential") \in strategies

ApprovedSeq(apps) == SelectSeq(apps, LAMBDA r : r.status = "approved")

NoRejection == \A i \in DOMAIN approvals : approvals[i].status # "rejected"

Terminal == {"approved", "rejected"}

\* C1: under a sequential rule with n >= 2 approver specs the expense is
\* pending while fewer than n approvals are recorded (and nobody rejected),
\* and approved once n are recorded.
C1_SequentialApprovedAtLast ==
    (HasStrategy({"sequential"}) /\ expense.status # "draft"
        /\ Len(CurrentRule.approval_flow.approvers) >= 2 /\ NoRejection)
    => LET n == Len(CurrentRule.approval_flow.approvers)
           k == CountApproved(approvals)
       IN  /\ k < n => expense.status = "pending"
           /\ k = n => expense.status = "approved"

\* C2: under a sequential rule with k approvals recorded, a review by a user
\* who does not match the spec at index k (in particular one who matches
\* only specs at other indexes) fails as not authorized and writes nothing.
C2_SequentialOrder ==
    [][\A u \in Users :
        (/\ HasStrategy({"sequential"})
         /\ req'[1].approver = u
         /\ LET chain == CurrentRule.approval_flow.approvers
                k == CountApproved(approvals)
            IN  k >= Len(chain) \/ ~_matches_approver_config(u, chain[k + 1]))
        => (/\ req'[1].result = "NotAuthorized"
            /\ approvals' = approvals
            /\ expense' = expense)]_vars

\* C2 witness: after mgr1's approval of step 1 of [manager, adm1, mgr2], mgr2
\* (who matches the specs at indexes 0 and 2 only) was refused at k = 1.
C2_Witness ==
    /\ HasStrategy({"sequential"}) /\ CurrentRule.id = "seq3"
    /\ expense.status = "pending"
    /\ CountApproved(approvals) = 1
    /\ req[1].approver = "mgr2" /\ req[1].action = "approve"
    /\ req[1].result = "NotAuthorized"

\* C3: under a sequential rule the approvals recorded are one per step, in
\* list order: the i-th approval is by a user matching the i-th spec, so two
\* reviewers of the same step never both get recorded.
C3_OneApprovalPerStep ==
    HasStrategy({"sequential"})
    => LET chain == CurrentRule.approval_flow.approvers
           done == ApprovedSeq(approvals)
       IN  /\ Len(done) <= Len(chain)
           /\ \A i \in DOMAIN done : _matches_approver_config(done[i].approver, chain[i])

\* The completion condition of a percentage or all_managers rule on the
\* recorded approvals (section 4.3 of the specification, as the evaluators
\* compute it).
Complete(rule, apps, exp) ==
    IF rule.approval_flow.strategy = "percentage"
    THEN LET eligible == rule.approval_flow.eligible_approvers
         IN  CountApprovedByRoles(apps, {Get(eligible[i], "role", None) : i \in DOMAIN eligible})
                * 100 >= rule.approval_flow.percentage_required * Len(eligible)
    ELSE CountApprovedByRoles(apps, {"manager"})
            >= Cardinality({u \in Staff : company[u] = company[exp.owner]
                                           /\ role[u] = "manager" /\ is_active[u]})

\* C4: under a percentage or all_managers rule, once every approve call has
\* returned, the expense is approved iff the recorded approvals satisfy the
\* rule's completion condition.
C4_ApprovedIffComplete ==
    (/\ HasStrategy({"percentage", "all_managers"})
     /\ NoRejection
     /\ \A p \in Procs : req[p].pc = "idle")
    => (expense.status = "approved" <=> Complete(CurrentRule, approvals, expense))

\* C5: terminal states are absorbing: once the status is approved or
\* rejected no step changes it.
C5_TerminalAbsorbing ==
    [][expense.status \in Terminal => expense'.status = expense.status]_vars

C7_PercentageThreshold ==
    (HasStrategy({"percentage"}) /\ expense.status # "draft" /\ NoRejection)
    => LET N == Len(CurrentRule.approval_flow.eligible_approvers)
           P == CurrentRule.approval_flow.percentage_required
       IN  IF 100 * CountApproved(approvals) >= P * N
           THEN expense.status = "approved"
           ELSE expense.status = "pending"

\* C8: a review by the owner of the expense fails as not authorized and
\* writes nothing, under every rule and whatever the owner's role.
C8_OwnerNeverReviews ==
    [][req'[1].approver = expense.owner
        => (/\ req'[1].result = "NotAuthorized"
            /\ approvals' = approvals
            /\ expense' = expense)]_vars

\* C8 witness: an owner with the manager role tried to approve a pending
\* expense under a rule that admits managers, and was refused.
C8_Witness ==
    /\ expense.owner = "mgr1" /\ expense.status = "pending"
    /\ HasStrategy({"any_manager"})
    /\ req[1].approver = "mgr1" /\ req[1].action = "approve"
    /\ req[1].result = "NotAuthorized"
    /\ approvals = <<>>

RowsOf(apps, u) == {i \in DOMAIN apps : apps[i].approver = u}

\* C9: once U has an approved row, another approve by U fails as not
\* authorized and adds nothing; there is never more than one row per user.
C9_NoSecondApproval ==
    [][/\ \A u \in Users :
            (req'[1].approver = u /\ req'[1].action = "approve" /\ u \in ApprovedBy(approvals))
            => (req'[1].result = "NotAuthorized" /\ approvals' = approvals)
       /\ \A u \in Users : Cardinality(RowsOf(approvals', u)) <= 1]_vars

\* C9 witness: the second approve of a user whose approval is recorded, on an
\* expense that is still pending, was refused.
C9_Witness ==
    /\ expense.status = "pending"
    /\ req[1].action = "approve" /\ req[1].result = "NotAuthorized"
    /\ req[1].approver \in ApprovedBy(approvals)
    /\ HasStrategy({"percentage", "all_managers"})

\* C10: a review that fails leaves the stored expense and the stored
\* Approval rows as they were.
C10_FailedReviewNoOp ==
    [][req'[1].result \in Failures => (expense' = expense /\ approvals' = approvals)]_vars

\* C10 witness: a review failed in the save hook, after its row was created.
C10_Witness ==
    /\ req[1].result = "AttributeError"
    /\ expense.status = "pending"
    /\ approvals = <<>>

\* C11: when no rule applies, a review by a user whose role is neither
\* manager nor admin fails as not authorized and writes nothing, and an
\* approve that succeeds sets the expense to approved at once.
C11_NoRuleManagerOrAdmin ==
    [][\A u \in Users :
        (CurrentRule = NoRule /\ req'[1].approver = u)
        => /\ role[u] \notin {"manager", "admin"}
                => (/\ req'[1].result = "NotAuthorized"
                    /\ approvals' = approvals
                    /\ expense' = expense)
           /\ (req'[1].action = "approve" /\ req'[1].result \notin Failures)
                => (/\ expense'.status = "approved"
                    /\ req'[1].result = "fully_approved")]_vars

\* C11 witness: the first approval of an expense without a rule, whose
\* approval chain names a further approver, approved it.
C11_Witness ==
    /\ CurrentRule = NoRule
    /\ expense.approval_chain # <<>>
    /\ Len(approvals) = 1
    /\ req[1].action = "approve" /\ req[1].result = "fully_approved"
    /\ expense.status = "approved"
    /\ expense.metadata.approval_reason = "no_rule_auto_approve"

\* C12: while the expense is pending, no step (a rule being created,
\* deactivated, deleted or given another priority included) changes the
\* rule the engine uses for it.
C12_RulePinned ==
    [][(/\ expense.status \in {"pending", "submitted"}
        /\ expense'.status \in {"pending", "submitted"})
       => _get_approval_rule(expense', rules').id = _get_approval_rule(expense, rules).id]_vars

\* The order of rule ids.
RuleIdOrder == <<"hi", "lo", "pct">>

Precedes(r, t) ==
    \/ r.priority > t.priority
    \/ r.priority = t.priority /\ r.min_amount < t.min_amount
    \/ /\ r.priority = t.priority /\ r.min_amount = t.min_amount
       /\ IndexOf(RuleIdOrder, r.id) < IndexOf(RuleIdOrder, t.id)

\* Section 4.1: highest priority, then lowest min_amount, then rule id.
SelectByPriority(exp, rls) ==
    LET match == {r \in rls : Applicable(exp, r)}
    IN  IF match = {} THEN NoRule
        ELSE CHOOSE r \in match : \A t \in match \ {r} : Precedes(r, t)

\* C13: every rule selection (the engine's for an expense without a pinned
\* id, the one at creation, the one at submission) returns the matching
\* active rule of highest priority, then lowest min_amount, then id, and no
\* rule when none matches.
C13_SelectionByPriority ==
    LET chosen == SelectByPriority(expense, rules)
    IN  /\ _get_approval_rule([expense EXCEPT !.metadata.approval_rule_id = None],
                              rules).id = chosen.id
        /\ _link_approval_rules(expense, rules) = chosen.id
        /\ SubmitChoices(expense, rules) = {chosen}

OnlyEmptySpecs(flow) ==
    LET specs == Get(flow, "approvers", <<>>) \o Get(flow, "eligible_approvers", <<>>)
                    \o Get(flow, "special_approvers", <<>>)
    IN  /\ specs # <<>>
        /\ \A i \in DOMAIN specs : DOMAIN specs[i] = {}

\* C14: under a rule whose approver specs are all empty ({}), no reviewer
\* is authorized: every review fails as not authorized.
C14_EmptySpecMatchesNobody ==
    [][(CurrentRule # NoRule /\ OnlyEmptySpecs(CurrentRule.approval_flow))
        => req'[1].result = "NotAuthorized"]_vars

CompletionMet(rule, apps, exp) ==
    LET strategy == Get(rule.approval_flow, "strategy", "sequential")
        chain == Get(rule.approval_flow, "approvers", <<>>)
        special == Get(rule.approval_flow, "special_approvers", <<>>)
    IN  CASE strategy \in {"percentage", "all_managers"} -> Complete(rule, apps, exp)
          [] strategy = "any_manager" -> CountApprovedByRoles(apps, {"manager", "admin"}) >= 1
          [] strategy = "special_approver" ->
                \/ CountApproved(apps) >= Len(chain)
                \/ \E u \in ApprovedBy(apps), i \in DOMAIN special :
                        /\ _matches_approver_config(u, special[i])
                        /\ Get(special[i], "auto_approve", FALSE)
          [] OTHER -> CountApproved(apps) >= Len(chain)

\* C16: an approved expense has the approved rows its rule's completion
\* condition asks for (with no rule: an approval by a manager or admin).
C16_ApprovedOnlyWhenComplete ==
    expense.status = "approved"
    => IF CurrentRule = NoRule
       THEN CountApprovedByRoles(approvals, {"manager", "admin"}) >= 1
       ELSE CompletionMet(CurrentRule, approvals, expense)

SubmitOps == {"submit", "secure_submit"}

\* C17: a submit that succeeds was on a draft expense, leaves it pending
\* with a rule pinned and the submission time recorded; a submit that fails
\* leaves the expense unchanged.
C17_SubmitContract ==
    [][req'[1].action \in SubmitOps
        => IF req'[1].result = "submitted"
           THEN /\ expense.status = "draft"
                /\ expense'.status = "pending"
                /\ expense'.submitted_at
                /\ (expense'.approval_rule # None
                        \/ expense'.metadata.approval_rule_id # None)
           ELSE expense' = expense]_vars

\* The expenses section 4.4 lists for u.
PendingForExpected(exp, apps, rls, u) ==
    /\ exp.status \in {"pending", "submitted"}
    /\ company[exp.owner] = company[u]
    /\ exp.owner # u
    /\ u \notin ApprovedBy(apps)
    /\ IF _get_approval_rule(exp, rls) = NoRule
       THEN role[u] \in {"manager", "admin"}
       ELSE _is_authorized_by_rule(apps, u, _get_approval_rule(exp, rls).approval_flow)

\* C18 (engine): the engine's pending list holds the expense for u exactly
\* when section 4.4 lists it.
EnginePendingExact ==
    \A u \in Users :
        get_pending_approvals_for_user(expense, approvals, rules, u)
            <=> PendingForExpected(expense, approvals, rules, u)

\* C18: both pending lists (the engine's and the expense view's) hold the
\* expense for u exactly when it is pending, of u's company, not u's own,
\* not yet approved by u, and u passes the authorization check of its rule.
C18_PendingForExact ==
    /\ EnginePendingExact
    /\ \A u \in Users :
          pending_approvals(expense, u) <=> PendingForExpected(expense, approvals, rules, u)

\* C19: there is at most one Approval row per (expense, approver).
C19_OneRowPerPair ==
    \A u \in Staff : Cardinality(RowsOf(approvals, u)) <= 1

\* C19 witness: the admin, whose approval the engine had recorded and
\* finalized, approved again through the endpoint: the row was updated.
C19_Witness ==
    /\ req[1].action = "approve_endpoint" /\ req[1].result = "endpoint_approved"
    /\ req[1].approver = "adm1"
    /\ expense.metadata.final_approver = "adm1"
    /\ approvals = <<[approver |-> "adm1", status |-> "approved", comment |-> ""]>>

\* Lines 328-344: same company, not the owner, not already approved.
CommonGuard(exp, apps, u) ==
    /\ company[exp.owner] = company[u]
    /\ exp.owner # u
    /\ u \notin ApprovedBy(apps)

\* C20: under an all_managers rule a reviewer who passes the common guard
\* is authorized exactly when their role is manager.
C20_AllManagersByRole ==
    [][\A u \in Users :
        (/\ HasStrategy({"all_managers"})
         /\ req'[1].approver = u
         /\ CommonGuard(expense, approvals, u))
        => (req'[1].result # "NotAuthorized" <=> role[u] = "manager")]_vars

\* Lines 263-267: the active managers of the expense's company.
ActiveManagers(exp) ==
    {u \in Staff : company[u] = company[exp.owner] /\ role[u] = "manager" /\ is_active[u]}

\* C21: under an all_managers rule an approve that succeeds leaves the
\* expense approved when, counting it, the approved rows by managers are at
\* least the active managers of the company, and pending otherwise.
C21_AllManagersFinalize ==
    [][(/\ HasStrategy({"all_managers"})
        /\ req'[1].action = "approve"
        /\ req'[1].result \notin Failures)
       => expense'.status =
            IF CountApprovedByRoles(approvals', {"manager"})
                    >= Cardinality(ActiveManagers(expense))
            THEN "approved" ELSE "pending"]_vars

\* Lines 241-246: u matches a special-approver spec that carries auto_approve.
AutoSpecial(flow, u) ==
    LET special == Get(flow, "special_approvers", <<>>)
    IN  \E i \in DOMAIN special :
            /\ _matches_approver_config(u, special[i])
            /\ Get(special[i], "auto_approve", FALSE)

\* C22: under a special_approver rule an approve that succeeds approves the
\* expense at once when the reviewer matches an auto-approve special spec;
\* otherwise the expense is approved when the approved rows are at least
\* the approver list, and pending below that.
C22_SpecialApprover ==
    [][\A u \in Users :
        (/\ HasStrategy({"special_approver"})
         /\ req'[1].approver = u /\ req'[1].action = "approve"
         /\ req'[1].result \notin Failures)
        => expense'.status =
            IF AutoSpecial(CurrentRule.approval_flow, u) THEN "approved"
            ELSE IF CountApproved(approvals') >= Len(CurrentRule.approval_flow.approvers)
            THEN "approved" ELSE "pending"]_vars

\* C25: after a review that succeeds under a sequential rule the stored
\* current approver is none when the expense is approved or rejected, and
\* otherwise a user the next spec of the chain resolves to.
C25_CurrentApproverFromChain ==
    [][(/\ HasStrategy({"sequential"})
        /\ req'[1].action \in Actions
        /\ req'[1].result \notin Failures)
       => IF expense'.status \in Terminal
          THEN expense'.current_approver = None
          ELSE expense'.current_approver \in
                 _find_approver_by_config(
                     company[expense.owner],
                     CurrentRule.approval_flow.approvers[CountApproved(approvals') + 1])]_vars

\* Every step of chain has its own approved row by a user matching it.
StepsCovered(chain, apps) ==
    \E f \in [DOMAIN chain -> DOMAIN apps] :
        /\ \A i, j \in DOMAIN chain : i # j => f[i] # f[j]
        /\ \A i \in DOMAIN chain :
              /\ apps[f[i]].status = "approved"
              /\ _matches_approver_config(apps[f[i]].approver, chain[i])

\* C29: under a special_approver rule, an expense the engine finalized as
\* approved was approved by a reviewer matching an auto-approve special
\* spec, or has one approved row per step of the approver list by a user
\* matching that step.
C29_SpecialNeverReplacesStep ==
    (/\ HasStrategy({"special_approver"})
     /\ expense.status = "approved"
     /\ expense.metadata.final_status = "approved")
    => \/ \E u \in ApprovedBy(approvals) : AutoSpecial(CurrentRule.approval_flow, u)
       \/ StepsCovered(CurrentRule.approval_flow.approvers, approvals)

\* C30 (checks): a review of an expense listed for u passes the
\* authorization and the status check; a review of a pending expense not
\* listed for u fails as not authorized.
ListedPassesChecks ==
    [][\A u \in Users :
        (req'[1].approver = u /\ req'[1].action \in Actions)
        => /\ get_pending_approvals_for_user(expense, approvals, rules, u)
                => req'[1].result \notin {"NotAuthorized", "StateConflict"}
           /\ (/\ expense.status \in {"pending", "submitted"}
               /\ ~get_pending_approvals_for_user(expense, approvals, rules, u))
                => req'[1].result = "NotAuthorized"]_vars

\* C30: a review (approve or reject) of an expense listed for u succeeds; a
\* review of a pending expense not listed for u fails as not authorized.
C30_PendingForAgreesWithReview ==
    [][\A u \in Users :
        (req'[1].approver = u /\ req'[1].action \in Actions)
        => /\ get_pending_approvals_for_user(expense, approvals, rules, u)
                => req'[1].result \notin Failures
           /\ (/\ expense.status \in {"pending", "submitted"}
               /\ ~get_pending_approvals_for_user(expense, approvals, rules, u))
                => req'[1].result = "NotAuthorized"]_vars

\* SpecRows keeps one rule row: the rule of the expense.
RowsRule == CHOOSE r \in rules : TRUE

\* C23: for a pending expense whose rule names a specific approver and has
\* an empty approver list, the approve endpoint called by a manager who is
\* not the specific approver answers forbidden and changes neither the
\* expense nor the rows; called by the specific approver it succeeds and
\* the expense is approved.
C23_SpecificApproverOnly ==
    [][\A u \in RowsUsers :
        (/\ expense.status = "pending"
         /\ RowsRule.specific_approver # None /\ RowsRule.approvers = <<>>
         /\ req'[1].action = "approve_endpoint" /\ req'[1].approver = u)
        => IF u = RowsRule.specific_approver
           THEN req'[1].result = "endpoint_approved" /\ expense'.status = "approved"
           ELSE role[u] = "manager"
                => /\ req'[1].result = "Forbidden"
                   /\ expense' = expense /\ approvals' = approvals]_vars

\* C24: for a pending expense under a rule with a manager in its approver
\* list and a specific approver, the manager's approve succeeds and leaves
\* the expense pending; the expense becomes approved only with an approved
\* row of the specific approver.
C24_HybridNeedsBoth ==
    [][(/\ expense.status = "pending"
        /\ RowsRule.specific_approver # None /\ RowsRule.approvers # <<>>
        /\ req'[1].action = "approve_endpoint")
       => /\ (req'[1].approver = RowsRule.approvers[1])
                => req'[1].result = "endpoint_approved" /\ expense'.status = "pending"
          /\ expense'.status = "approved"
                => RowsRule.specific_approver \in ApprovedBy(approvals')]_vars

\* C26: a submit of a draft by its owner, when the rule selected has an
\* empty approver list and no specific approver, fails and leaves the draft.
C26_SubmitNeedsApprovers ==
    [][(/\ expense.status = "draft"
        /\ req'[1].action \in SubmitOps /\ req'[1].approver = expense.owner
        /\ RowsRule.approvers = <<>> /\ RowsRule.specific_approver = None)
       => req'[1].result # "submitted" /\ expense'.status = "draft"]_vars

\* The calls of the approvals endpoint.
RowOps == {"create_row", "approve_row", "reject_row"}

\* The user after the current approver in the chain of user ids, None when
\* there is none.
NextInChain(exp) ==
    IF \E i \in 1..(Len(exp.approval_chain) - 1) :
            exp.approval_chain[i] = exp.current_approver
    THEN exp.approval_chain[1 + CHOOSE i \in 1..(Len(exp.approval_chain) - 1) :
            /\ exp.approval_chain[i] = exp.current_approver
            /\ \A j \in 1..(i - 1) : exp.approval_chain[j] # exp.current_approver]
    ELSE None

C28_AllManagersEventuallyApproved ==
    (expense.status = "pending") ~> (expense.status = "approved")

=============================================================================
